---- MODULE Spec2Model ----
(***************************************************************************)
(* Model of sdc/tests/tests_perf/generator.py: expansion of a table of     *)
(* TestCase descriptors into test methods attached to a test class.        *)
(*                                                                         *)
(* Python strings are sequences of one-character strings, so that split,   *)
(* join, slicing and the identifier mangling are computed, not assumed.    *)
(***************************************************************************)
EXTENDS Integers, Sequences, FiniteSets, TLC

\* ------------------------------------------------------------------------
\* Bounds of the model
\* ------------------------------------------------------------------------
MaxCases == 2
MaxDataNum == 2
MaxInvocations == 1

\* ------------------------------------------------------------------------
\* Text
\* ------------------------------------------------------------------------
None == <<"<None>">>

Digits == {"0", "1", "2", "3", "4", "5", "6", "7", "8", "9"}

Letters ==
    {"a", "b", "c", "d", "e", "f", "g", "h", "i", "j", "k", "l", "m",
     "n", "o", "p", "q", "r", "s", "t", "u", "v", "w", "x", "y", "z",
     "F", "N", "T"}

WordChars == Letters \cup Digits \cup {"_"}

T_empty == <<>>
T_data == <<"d", "a", "t", "a">>
T_test == <<"t", "e", "s", "t">>
T_None == <<"N", "o", "n", "e">>
T_True == <<"T", "r", "u", "e">>
T_False == <<"F", "a", "l", "s", "e">>
T_skipna == <<"s", "k", "i", "p", "n", "a", "=">>
T_comma_space == <<",", " ">>

StartsWithAt(s, sep, i) ==
    /\ i + Len(sep) - 1 <= Len(s)
    /\ SubSeq(s, i, i + Len(sep) - 1) = sep

\* str.split(sep): the pieces between the non-overlapping occurrences of sep,
\* scanned from the left; a string without sep is a single piece.
RECURSIVE split(_, _)
split(s, sep) ==
    IF \E i \in 1..Len(s) : StartsWithAt(s, sep, i)
    THEN LET first == CHOOSE j \in 1..Len(s) :
                          /\ StartsWithAt(s, sep, j)
                          /\ \A k \in 1..(j - 1) : ~StartsWithAt(s, sep, k)
         IN  <<SubSeq(s, 1, first - 1)>>
             \o split(SubSeq(s, first + Len(sep), Len(s)), sep)
    ELSE <<s>>

\* sep.join(parts)
RECURSIVE join(_, _)
join(sep, parts) ==
    IF parts = <<>> THEN <<>>
    ELSE IF Len(parts) = 1 THEN parts[1]
    ELSE parts[1] \o sep \o join(sep, Tail(parts))

\* list[n:] and list[:n] with Python's treatment of negative and
\* out-of-range bounds.
SliceBound(lst, n) ==
    IF n < 0 THEN (IF Len(lst) + n < 0 THEN 0 ELSE Len(lst) + n)
    ELSE IF n > Len(lst) THEN Len(lst) ELSE n

SliceFrom(lst, n) == SubSeq(lst, SliceBound(lst, n) + 1, Len(lst))

SliceTo(lst, n) == SubSeq(lst, 1, SliceBound(lst, n))

\* f'{x}': None is formatted as the text None.
format(x) == IF x = None THEN T_None ELSE x

\* ------------------------------------------------------------------------
\* Descriptors
\* ------------------------------------------------------------------------
CallExpression(code, type_, jitted) ==
    [code |-> code, type_ |-> type_, jitted |-> jitted]

\* call_expr is None, a str, or a list of CallExpression.
CallExprNone == [kind |-> "None", code |-> T_empty, items |-> <<>>]

CallExprStr(code) == [kind |-> "str", code |-> code, items |-> <<>>]

CallExprList(items) == [kind |-> "list", code |-> T_empty, items |-> items]

TestCase ==
    [name |-> <<"a">>, size |-> <<10>>, params |-> T_empty,
     call_expr |-> CallExprNone, usecase_params |-> None,
     input_data |-> None, data_num |-> 1, data_gens |-> None,
     skip |-> FALSE, check_skipna |-> FALSE]

\* ------------------------------------------------------------------------
\* Name synthesis
\* ------------------------------------------------------------------------
\* sdc.io.csv_ext.to_varname: every character outside the identifier
\* alphabet becomes an underscore.
to_varname(string) ==
    [i \in 1..Len(string) |->
        IF string[i] \in WordChars THEN string[i] ELSE "_"]

to_varname_without_excess_underscores(string) ==
    join(<<"_">>, SelectSeq(split(to_varname(string), <<"_">>),
                            LAMBDA i : i # <<>>))

\* gen_params_wo_data cutting at data_num instead of data_num - 1.
gen_params_wo_data_at_data_num(tc) ==
    join(T_comma_space,
         SliceFrom(split(tc.params, T_comma_space),
                   IF tc.data_gens = None THEN tc.data_num ELSE Len(tc.data_gens)))

gen_params_wo_data(tc) ==
    LET extra_data_num == IF tc.data_gens = None
                          THEN tc.data_num - 1
                          ELSE Len(tc.data_gens)
        method_params == SliceFrom(split(tc.params, T_comma_space), extra_data_num)
    IN  join(T_comma_space, method_params)

gen_usecase_params(tc) ==
    LET extra_data_num == IF tc.data_gens = None
                          THEN tc.data_num - 1
                          ELSE Len(tc.data_gens)
        extra_usecase_params == SliceTo(split(tc.params, T_comma_space), extra_data_num)
        usecase_params_parts == <<T_data>> \o extra_usecase_params
    IN  join(T_comma_space, usecase_params_parts)

gen_call_expr(tc, pre) ==
    LET prefix_as_list == IF pre # T_empty THEN <<pre>> ELSE <<>>
        call_expr_parts == <<T_data>> \o prefix_as_list
                           \o <<tc.name \o <<"(">> \o tc.params \o <<")">>>>
    IN  join(<<".">>, call_expr_parts)

\* ------------------------------------------------------------------------
\* Probe synthesis
\* ------------------------------------------------------------------------
\* What exec() of the assembled function text accepts.  Only the part of the
\* Python grammar that the texts of this model exercise is modelled:
\* the parameter list of the def header and the balance of parentheses and
\* the alphabet of the expression on the right of "res =".
Keywords == {T_None, T_True, T_False}

ExprChars == WordChars \cup {".", "(", ")", ",", " ", "=", "-", "+"}

RECURSIVE strip(_)
strip(s) ==
    IF s = <<>> THEN s
    ELSE IF s[1] = " " THEN strip(Tail(s))
    ELSE IF s[Len(s)] = " " THEN strip(SubSeq(s, 1, Len(s) - 1))
    ELSE s

IsIdentifier(s) ==
    /\ s # <<>>
    /\ \A i \in 1..Len(s) : s[i] \in WordChars
    /\ s[1] \notin Digits
    /\ s \notin Keywords

StripAll(raw) == [i \in 1..Len(raw) |-> strip(raw[i])]

DropTrailingEmpty(toks) ==
    IF Len(toks) >= 2 /\ toks[Len(toks)] = <<>>
    THEN SubSeq(toks, 1, Len(toks) - 1)
    ELSE toks

\* The parameters between the parentheses of the def header.
ParamTokens(text) ==
    IF strip(text) = <<>> THEN <<>>
    ELSE DropTrailingEmpty(StripAll(split(text, <<",">>)))

ParamName(tok) == strip(split(tok, <<"=">>)[1])

HasDefault(tok) == \E i \in 1..Len(tok) : tok[i] = "="

ParamDefault(tok) == strip(SubSeq(tok, Len(split(tok, <<"=">>)[1]) + 2, Len(tok)))

NamesOf(toks) == [i \in 1..Len(toks) |-> ParamName(toks[i])]

ParameterNames(text) == NamesOf(ParamTokens(text))

ValidParams(toks, names) ==
    /\ \A i \in 1..Len(toks) :
        /\ IsIdentifier(names[i])
        /\ HasDefault(toks[i]) => ParamDefault(toks[i]) # <<>>
    /\ \A i, j \in 1..Len(toks) :
        /\ (i < j /\ HasDefault(toks[i])) => HasDefault(toks[j])
        /\ (i # j) => names[i] # names[j]

ValidTokens(toks) == ValidParams(toks, NamesOf(toks))

ValidParameterList(text) == ValidTokens(ParamTokens(text))

ParenDepth(s, i) ==
    Cardinality({k \in 1..i : s[k] = "("}) - Cardinality({k \in 1..i : s[k] = ")"})

ValidExpression(text) ==
    /\ strip(text) # <<>>
    /\ \A i \in 1..Len(text) : text[i] \in ExprChars /\ ParenDepth(text, i) >= 0
    /\ ParenDepth(text, Len(text)) = 0

\* Names the expression loads when it is evaluated: the maximal runs of
\* identifier characters that are not numbers, attributes (after a dot),
\* keyword-argument names (before "=") or keywords.
RunEnd(s, i) ==
    CHOOSE j \in i..Len(s) :
        /\ \A k \in i..j : s[k] \in WordChars
        /\ j = Len(s) \/ s[j + 1] \notin WordChars

IsLoad(s, i, e) ==
    /\ s[i] \in WordChars
    /\ s[i] \notin Digits
    /\ i = 1 \/ (s[i - 1] \notin WordChars /\ s[i - 1] # ".")
    /\ e = Len(s) \/ s[e + 1] # "="
    /\ SubSeq(s, i, e) \notin Keywords

FreeNames(s) ==
    {SubSeq(s, r[1], r[2]) :
        r \in {q \in {<<i, RunEnd(s, i)>> : i \in {k \in 1..Len(s) : s[k] \in WordChars}} :
                 IsLoad(s, q[1], q[2])}}

\* Names bound in the module whose globals() the probe is compiled against.
ModuleGlobals == {<<"t", "i", "m", "e">>, <<"n", "p">>}

NoFunc == [params |-> <<>>, code |-> T_empty]

Compile(header, call_expr) ==
    IF ValidParameterList(header) /\ ValidExpression(call_expr)
    THEN [raised |-> FALSE,
          func |-> [params |-> ParameterNames(header), code |-> call_expr]]
    ELSE [raised |-> TRUE, func |-> NoFunc]

create_func(usecase_params, call_expr) ==
    Compile(format(usecase_params), call_expr)

\* Names a probe cannot resolve when it is called (NameError at call time).
UnresolvedNames(f) ==
    FreeNames(f.code) \ ({f.params[i] : i \in 1..Len(f.params)} \cup ModuleGlobals)

\* The (usecase_params, call_expr) pair that gen_usecase hands to create_func
\* for the expression text code.
CreateFuncArgs(tc, code) ==
    [usecase_params |-> IF tc.call_expr.kind = "None" /\ tc.usecase_params = None
                        THEN gen_usecase_params(tc)
                        ELSE tc.usecase_params,
     call_expr |-> code]

CreateFuncAll(args) ==
    [i \in 1..Len(args) |-> create_func(args[i].usecase_params, args[i].call_expr)]

FirstRaise(made) ==
    IF \E i \in 1..Len(made) : made[i].raised
    THEN CHOOSE i \in 1..Len(made) :
             made[i].raised /\ \A k \in 1..(i - 1) : ~made[k].raised
    ELSE 0

\* UsecaseOfList tagging every record with the first entry's type_ and jitted.
UsecaseOfList_first_entry(items, args, made) ==
    [raised |-> FirstRaise(made) # 0,
     kind |-> "list",
     func |-> NoFunc,
     results |-> IF FirstRaise(made) # 0 THEN <<>>
                 ELSE [i \in 1..Len(items) |->
                          [func |-> made[i].func,
                           type_ |-> items[1].type_,
                           jitted |-> items[1].jitted]],
     calls |-> IF FirstRaise(made) # 0 THEN SubSeq(args, 1, FirstRaise(made))
               ELSE args]

\* The loop over a list of CallExpression: it stops at the first create_func
\* that raises.
UsecaseOfList(items, args, made) ==
    [raised |-> FirstRaise(made) # 0,
     kind |-> "list",
     func |-> NoFunc,
     results |-> IF FirstRaise(made) # 0 THEN <<>>
                 ELSE [i \in 1..Len(items) |->
                          [func |-> made[i].func,
                           type_ |-> items[i].type_,
                           jitted |-> items[i].jitted]],
     calls |-> IF FirstRaise(made) # 0 THEN SubSeq(args, 1, FirstRaise(made))
               ELSE args]

UsecaseOfOne(args, made) ==
    [raised |-> made.raised,
     kind |-> "func",
     func |-> made.func,
     results |-> <<>>,
     calls |-> <<args>>]

ListArgs(tc, items) == [i \in 1..Len(items) |-> CreateFuncArgs(tc, items[i].code)]

CreateList(items, args) == UsecaseOfList(items, args, CreateFuncAll(args))

CreateOne(args) ==
    UsecaseOfOne(args, create_func(args.usecase_params, args.call_expr))

gen_usecase(tc, pre) ==
    IF tc.call_expr.kind = "list"
    THEN CreateList(tc.call_expr.items, ListArgs(tc, tc.call_expr.items))
    ELSE CreateOne(CreateFuncArgs(tc, IF tc.call_expr.kind = "None"
                                      THEN gen_call_expr(tc, pre)
                                      ELSE tc.call_expr.code))

\* sdc.tests.test_utils.skip_numba_jit: the decorated method reports a
\* skipped outcome instead of running.
skip_numba_jit(method) == [method EXCEPT !.wrapper = "skip"]

\* The method gen_test builds from the usecase: the cell values func closes
\* over (usecase, test_name, test_case); calls records what was passed to
\* create_func.
Closure(tc, made) ==
    [raised |-> made.raised,
     calls |-> made.calls,
     cells |-> [usecase |-> [kind |-> made.kind, func |-> made.func,
                             results |-> made.results],
                test_name |-> IF tc.params # T_empty
                              THEN tc.name \o <<"(">> \o tc.params \o <<")">>
                              ELSE tc.name,
                test_case |-> tc],
     wrapper |-> "none"]

\* Wrapped without the test of test_case.skip.
Wrapped_never(tc, method) == method

Wrapped(tc, method) == IF tc.skip THEN skip_numba_jit(method) ELSE method

gen_test(tc, pre) == Wrapped(tc, Closure(tc, gen_usecase(tc, pre)))

\* skipna_case appending the separator to empty params as well.
skipna_case_always_separated(case, skipna) ==
    [case EXCEPT !.params =
        case.params \o T_comma_space
        \o T_skipna \o (IF skipna THEN T_True ELSE T_False)]

\* One pass of the body of the loop in skipna_cases for a case with
\* check_skipna set.
skipna_case(case, skipna) ==
    [case EXCEPT !.params =
        (IF case.params # T_empty THEN case.params \o T_comma_space ELSE case.params)
        \o T_skipna \o (IF skipna THEN T_True ELSE T_False)]

setattr(obj, name, value) ==
    [k \in DOMAIN obj \cup {name} |-> IF k = name THEN value ELSE obj[k]]

\* ------------------------------------------------------------------------
\* Inputs
\* ------------------------------------------------------------------------
Names == {<<"a">>, <<"a", "_", "1">>}

Params == {T_empty, <<"1">>, <<"b", ",", " ", "1">>, <<"b", "-", "1">>}

E_ok == <<"d", "a", "t", "a", ".", "a", "(", ")">>
E_other == <<"d", "a", "t", "a", ".", "a", "(", "o", "t", "h", "e", "r", ")">>
E_bad == <<"d", "a", "t", "a", ".", "a", "(">>
T_data_other == <<"d", "a", "t", "a", ",", " ", "o", "t", "h", "e", "r">>

TwoChannels ==
    CallExprList(<<CallExpression(E_ok, "Python", FALSE),
                   CallExpression(E_other, "SDC", TRUE)>>)

CallExprs ==
    {CallExprNone, CallExprStr(E_ok), CallExprStr(E_other), CallExprStr(E_bad),
     TwoChannels, CallExprList(<<>>)}

UsecaseParams == {None, T_data, T_data_other}

DataGens == {None, <<"g1">>, <<"g1", "g2">>}

Typs == {<<"s">>}

Prefixes == {T_empty, <<"p">>}

\* Every combination of the fields that decide names and probes.
WideCases ==
    {[TestCase EXCEPT !.name = n, !.params = p, !.call_expr = c,
                      !.usecase_params = u, !.data_num = d, !.data_gens = g,
                      !.skip = s, !.check_skipna = k] :
        n \in Names, p \in Params, c \in CallExprs, u \in UsecaseParams,
        d \in 1..MaxDataNum, g \in DataGens, s \in BOOLEAN, k \in BOOLEAN}

\* The descriptors that tables of several cases are built from.
NamedCases ==
    {TestCase,
     [TestCase EXCEPT !.name = <<"a", "_", "1">>],
     [TestCase EXCEPT !.params = <<"1">>],
     [TestCase EXCEPT !.params = <<"1">>, !.skip = TRUE],
     [TestCase EXCEPT !.check_skipna = TRUE],
     [TestCase EXCEPT !.params = <<"b", "-", "1">>, !.check_skipna = TRUE],
     [TestCase EXCEPT !.params = <<"b", ",", " ", "1">>, !.data_num = 2]}

ProbeCases ==
    {[TestCase EXCEPT !.name = <<"v">>, !.call_expr = CallExprStr(E_ok),
                      !.usecase_params = T_data, !.size = <<20>>,
                      !.input_data = <<"1", "2">>, !.data_gens = <<"g1">>],
     [TestCase EXCEPT !.name = <<"v">>, !.call_expr = CallExprStr(E_ok),
                      !.usecase_params = T_data, !.skip = TRUE],
     [TestCase EXCEPT !.name = <<"w">>, !.call_expr = CallExprStr(E_other),
                      !.usecase_params = T_data],
     [TestCase EXCEPT !.name = <<"x">>, !.call_expr = CallExprStr(E_bad),
                      !.usecase_params = T_data],
     [TestCase EXCEPT !.name = <<"y">>, !.call_expr = CallExprStr(E_ok)],
     [TestCase EXCEPT !.name = <<"z">>, !.call_expr = TwoChannels,
                      !.usecase_params = T_data_other, !.data_num = 2]}

CoreCases == NamedCases \cup ProbeCases

SeqsUpTo(S, n) == UNION {[1..k -> S] : k \in 0..n}

\* Tables of one case over WideCases, tables of up to MaxCases over CoreCases.
WideTables == {<<c>> : c \in WideCases}

CoreTables == SeqsUpTo(CoreCases, MaxCases)

\* ------------------------------------------------------------------------
\* State
\* ------------------------------------------------------------------------
VARIABLES
    cases,              \* generate_test_cases: the table
    typ,                \* generate_test_cases: typ
    prefix,             \* generate_test_cases: prefix
    class_add,          \* the attributes of the test class, by name
    pc,                 \* "next", "body", "done" or "raised"
    idx,                \* skipna_cases: position of the for loop over cases
    skipna_pos,         \* skipna_cases: variants of cases[idx] yielded so far
    test_case,          \* generate_test_cases: the loop variable
    expanded,           \* every case skipna_cases has yielded, in order
    frames,             \* the closure cells of each gen_test call that returned
    create_func_calls,  \* arguments of the create_func calls of the last gen_test
    invocations,        \* number of test methods run
    last_run            \* what the last run of a test method did

vars ==
    <<cases, typ, prefix, class_add, pc, idx, skipna_pos, test_case, expanded,
      frames, create_func_calls, invocations, last_run>>

\* The harness entry point the test class already has.
K_test_case == <<"_", "t", "e", "s", "t", "_", "c", "a", "s", "e">>

Harness == [closure |-> 0, wrapper |-> "harness"]

NoRun == [ident |-> T_empty, outcome |-> "none", entry_calls |-> <<>>,
          probe_results |-> <<>>]

Init ==
    /\ \/ cases \in WideTables
       \/ cases \in CoreTables
    /\ typ \in Typs
    /\ prefix \in Prefixes
    /\ class_add = setattr(<<>>, K_test_case, Harness)
    /\ pc = "next"
    /\ idx = 1
    /\ skipna_pos = 0
    /\ test_case = TestCase
    /\ expanded = <<>>
    /\ frames = <<>>
    /\ create_func_calls = <<>>
    /\ invocations = 0
    /\ last_run = NoRun

\* skipna_cases resumes and yields the next case.
skipna_cases ==
    /\ pc = "next"
    /\ idx <= Len(cases)
    /\ test_case' = IF cases[idx].check_skipna
                    THEN skipna_case(cases[idx], skipna_pos = 0)
                    ELSE cases[idx]
    /\ expanded' = Append(expanded, test_case')
    /\ IF cases[idx].check_skipna /\ skipna_pos = 0
       THEN idx' = idx /\ skipna_pos' = 1
       ELSE idx' = idx + 1 /\ skipna_pos' = 0
    /\ pc' = "body"
    /\ UNCHANGED <<cases, typ, prefix, class_add, frames, create_func_calls,
                   invocations, last_run>>

\* skipna_cases is exhausted: generate_test_cases returns.
generate_test_cases_return ==
    /\ pc = "next"
    /\ idx > Len(cases)
    /\ pc' = "done"
    /\ UNCHANGED <<cases, typ, prefix, class_add, idx, skipna_pos, test_case,
                   expanded, frames, create_func_calls, invocations, last_run>>

test_name_of(tc, ty, pre) ==
    to_varname_without_excess_underscores(
        join(<<"_">>, <<T_test, ty, pre, tc.name, gen_params_wo_data(tc)>>))

\* Attach going on to the next case when gen_test raised.
Attach_skipping_failures(test_name, method) ==
    /\ create_func_calls' = method.calls
    /\ IF method.raised
       THEN UNCHANGED <<class_add, frames>>
       ELSE /\ frames' = Append(frames, method.cells)
            /\ class_add' = setattr(class_add, test_name,
                                    [closure |-> Len(frames) + 1,
                                     wrapper |-> method.wrapper])
    /\ pc' = "next"

\* setattr(class_add, test_name, method), or the exception gen_test raised.
Attach(test_name, method) ==
    /\ create_func_calls' = method.calls
    /\ IF method.raised
       THEN /\ pc' = "raised"
            /\ UNCHANGED <<class_add, frames>>
       ELSE /\ frames' = Append(frames, method.cells)
            /\ class_add' = setattr(class_add, test_name,
                                    [closure |-> Len(frames) + 1,
                                     wrapper |-> method.wrapper])
            /\ pc' = "next"

\* The body of the loop of generate_test_cases for the case just yielded.
generate_test_cases ==
    /\ pc = "body"
    /\ Attach(test_name_of(test_case, typ, prefix), gen_test(test_case, prefix))
    /\ UNCHANGED <<cases, typ, prefix, idx, skipna_pos, test_case, expanded,
                   invocations, last_run>>

\* func reading the cells of the gen_test call made last, as it would if it
\* closed over variables of the loop in generate_test_cases.
func_last_frame(method) ==
    [usecase |-> frames[Len(frames)].usecase,
     name |-> frames[Len(frames)].test_name,
     total_data_length |-> frames[Len(frames)].test_case.size,
     data_num |-> frames[Len(frames)].test_case.data_num,
     data_gens |-> frames[Len(frames)].test_case.data_gens,
     input_data |-> frames[Len(frames)].test_case.input_data]

\* The body of the method gen_test returns: the arguments it passes to
\* self._test_case.
func(method) ==
    [usecase |-> frames[method.closure].usecase,
     name |-> frames[method.closure].test_name,
     total_data_length |-> frames[method.closure].test_case.size,
     data_num |-> frames[method.closure].test_case.data_num,
     data_gens |-> frames[method.closure].test_case.data_gens,
     input_data |-> frames[method.closure].test_case.input_data]

Probes(usecase) ==
    IF usecase.kind = "func" THEN <<usecase.func>>
    ELSE [i \in 1..Len(usecase.results) |-> usecase.results[i].func]

\* A stub of the harness entry point: it calls every probe once.
CallAll(probes) ==
    [i \in 1..Len(probes) |->
        IF UnresolvedNames(probes[i]) # {} THEN "NameError" ELSE "returned"]

test_case_stub(call) == CallAll(Probes(call.usecase))

\* Running a method decorated by skip_numba_jit: a skipped outcome, and the
\* decorated function is not called.
skipped(ident) ==
    [ident |-> ident, outcome |-> "skipped", entry_calls |-> <<>>,
     probe_results |-> <<>>]

\* The test runner runs one attached test method.
run_test(ident) ==
    /\ pc = "done"
    /\ invocations < MaxInvocations
    /\ ident \in DOMAIN class_add
    /\ class_add[ident].closure > 0
    /\ invocations' = invocations + 1
    /\ last_run' =
           IF class_add[ident].wrapper = "skip"
           THEN skipped(ident)
           ELSE [ident |-> ident, outcome |-> "ran",
                 entry_calls |-> <<func(class_add[ident])>>,
                 probe_results |-> test_case_stub(func(class_add[ident]))]
    /\ UNCHANGED <<cases, typ, prefix, class_add, pc, idx, skipna_pos, test_case,
                   expanded, frames, create_func_calls>>

Next ==
    \/ skipna_cases
    \/ generate_test_cases_return
    \/ generate_test_cases
    \/ \E ident \in DOMAIN class_add : run_test(ident)

Spec == Init /\ [][Next]_vars

TypeOK ==
    /\ pc \in {"next", "body", "done", "raised"}
    /\ idx \in 1..(Len(cases) + 1)
    /\ skipna_pos \in {0, 1}
    /\ Len(frames) <= Len(expanded)
    /\ invocations \in 0..MaxInvocations

\* ------------------------------------------------------------------------
\* Properties
\* ------------------------------------------------------------------------
Attached == DOMAIN class_add \ {K_test_case}

\* The case the last run of the loop body worked on is test_case.
BodyRan == Len(expanded) > 0 /\ pc # "body"

NameTuple(tc) == <<typ, prefix, tc.name, gen_params_wo_data(tc)>>

\* C1: after a successful run the number of attached methods equals the
\* number of expanded descriptors (no method is replaced by a later one).
C1_NoOverwrite ==
    pc = "done" => Cardinality(Attached) = Len(expanded)

\* C2: two expanded descriptors whose (typ, prefix, name, literal parameter
\* text) tuples differ get different identifiers.
C2_Injective ==
    \A i, j \in 1..Len(expanded) :
        NameTuple(expanded[i]) # NameTuple(expanded[j]) =>
            test_name_of(expanded[i], typ, prefix)
                # test_name_of(expanded[j], typ, prefix)

\* C3: no probe that create_func returned refers to a name that is unresolved
\* when the probe is called.
C3_FailsAtConstruction ==
    \A k \in 1..Len(frames) :
        \A f \in {Probes(frames[k].usecase)[i] :
                    i \in 1..Len(Probes(frames[k].usecase))} :
            UnresolvedNames(f) = {}

Min(a, b) == IF a < b THEN a ELSE b

Max(a, b) == IF a > b THEN a ELSE b

\* The partition of the specification: the first width tokens and the rest.
Width(tc) ==
    IF tc.data_gens # None THEN Len(tc.data_gens) ELSE Max(tc.data_num - 1, 0)

ExtraTokens(tokens, width) == SubSeq(tokens, 1, Min(width, Len(tokens)))

LiteralTokens(tokens, width) ==
    SubSeq(tokens, Min(width, Len(tokens)) + 1, Len(tokens))

DerivedSignature(tc) ==
    IF tc.usecase_params # None THEN tc.usecase_params
    ELSE join(T_comma_space,
              <<T_data>> \o ExtraTokens(split(tc.params, T_comma_space), Width(tc)))

\* C4: every signature handed to create_func is usecase_params when given,
\* and otherwise data followed by the extra-data tokens, whatever the shape
\* of call_expr.
C4_SignatureDerivation ==
    BodyRan =>
        \A i \in 1..Len(create_func_calls) :
            create_func_calls[i].usecase_params = DerivedSignature(test_case)

\* C5 as stated: gen_usecase returns a non-empty sequence of records, a single
\* record tagged default and not compiled for an absent or single call_expr.
C5_AlwaysRecords ==
    \A k \in 1..Len(frames) :
        /\ frames[k].usecase.kind = "list"
        /\ Len(frames[k].usecase.results) >= 1
        /\ frames[k].test_case.call_expr.kind # "list" =>
               /\ Len(frames[k].usecase.results) = 1
               /\ frames[k].usecase.results[1].type_ = "default"
               /\ frames[k].usecase.results[1].jitted = FALSE

ExprOf(tc) ==
    IF tc.call_expr.kind = "None" THEN gen_call_expr(tc, prefix)
    ELSE tc.call_expr.code

\* C5 amended: gen_usecase returns the bare probe for an absent or single
\* call_expr, and for a list one record per entry, in entry order, with the
\* entry's type_ and jitted and the probe of the entry's code.
C5_ProbeOrRecords ==
    \A k \in 1..Len(frames) :
        /\ frames[k].test_case.call_expr.kind # "list" =>
               /\ frames[k].usecase.kind = "func"
               /\ frames[k].usecase.results = <<>>
               /\ frames[k].usecase.func.code = ExprOf(frames[k].test_case)
        /\ frames[k].test_case.call_expr.kind = "list" =>
               /\ frames[k].usecase.kind = "list"
               /\ Len(frames[k].usecase.results)
                      = Len(frames[k].test_case.call_expr.items)
               /\ \A i \in 1..Len(frames[k].usecase.results) :
                      /\ frames[k].usecase.results[i].type_
                             = frames[k].test_case.call_expr.items[i].type_
                      /\ frames[k].usecase.results[i].jitted
                             = frames[k].test_case.call_expr.items[i].jitted
                      /\ frames[k].usecase.results[i].func.code
                             = frames[k].test_case.call_expr.items[i].code

C5_Witness ==
    \E k \in 1..Len(frames) :
        /\ frames[k].usecase.kind = "list"
        /\ Len(frames[k].usecase.results) = 2
        /\ frames[k].usecase.results[1].type_ # frames[k].usecase.results[2].type_

WithParam(d, text) ==
    [d EXCEPT !.params = IF d.params = T_empty THEN text
                         ELSE d.params \o T_comma_space \o text]

Variants(d) ==
    IF d.check_skipna
    THEN <<WithParam(d, T_skipna \o T_True), WithParam(d, T_skipna \o T_False)>>
    ELSE <<d>>

RECURSIVE Expansion(_)
Expansion(table) ==
    IF table = <<>> THEN <<>>
    ELSE Variants(Head(table)) \o Expansion(Tail(table))

IsPrefix(p, q) == Len(p) <= Len(q) /\ p = SubSeq(q, 1, Len(p))

\* C7: skipna_cases yields, in table order, each case without check_skipna
\* itself and for each case with check_skipna the skipna=True copy and then
\* the skipna=False copy, all of them when it is exhausted; the table is
\* never modified.
C7_Expansion ==
    /\ [](/\ IsPrefix(expanded, Expansion(cases))
          /\ pc = "done" => expanded = Expansion(cases))
    /\ [][cases' = cases]_vars

C7_Witness ==
    /\ pc = "done"
    /\ Len(cases) = 2
    /\ cases[1].check_skipna /\ cases[1].params # T_empty
    /\ ~cases[2].check_skipna
    /\ Len(expanded) = 3

DisplayName(tc) ==
    IF tc.params = T_empty THEN tc.name
    ELSE tc.name \o <<"(">> \o tc.params \o <<")">>

ExpectedCall(tc, made) ==
    [usecase |-> [kind |-> made.kind, func |-> made.func, results |-> made.results],
     name |-> DisplayName(tc),
     total_data_length |-> tc.size,
     data_num |-> tc.data_num,
     data_gens |-> tc.data_gens,
     input_data |-> tc.input_data]

\* C9: a run of an attached method without skip calls the harness entry point
\* once, with the values of the expanded descriptor the method was attached
\* for; the class keeps the attributes it had, and every other attribute is a
\* method attached under the identifier of its own descriptor.
C9_OwnDescriptor ==
    /\ class_add[K_test_case] = Harness
    /\ \A k \in Attached :
           /\ class_add[k].closure \in 1..Len(frames)
           /\ k = test_name_of(expanded[class_add[k].closure], typ, prefix)
    /\ last_run.outcome = "ran" =>
           /\ ~expanded[class_add[last_run.ident].closure].skip
           /\ Len(last_run.entry_calls) = 1
           /\ last_run.entry_calls[1]
                  = ExpectedCall(expanded[class_add[last_run.ident].closure],
                                 gen_usecase(expanded[class_add[last_run.ident].closure],
                                             prefix))

C9_Witness ==
    /\ last_run.outcome = "ran"
    /\ Len(frames) >= 2
    /\ class_add[last_run.ident].closure = 1
    /\ frames[1] # frames[Len(frames)]

RECURSIVE SuiteAfter(_)
SuiteAfter(n) ==
    IF n = 0 THEN setattr(<<>>, K_test_case, Harness)
    ELSE setattr(SuiteAfter(n - 1), test_name_of(expanded[n], typ, prefix),
                 [closure |-> n,
                  wrapper |-> IF expanded[n].skip THEN "skip" ELSE "none"])

\* C10: when gen_test raises for the k-th expanded descriptor, no later
\* descriptor is produced or attached, and the class holds exactly what the
\* k-1 descriptors before it left.
C10_AbortKeepsEarlier ==
    \A k \in 1..Len(expanded) :
        gen_test(expanded[k], prefix).raised =>
            /\ Len(expanded) = k
            /\ pc \in {"body", "raised"}
            /\ Len(frames) = k - 1
            /\ class_add = SuiteAfter(k - 1)

C10_Witness ==
    /\ pc = "raised"
    /\ Len(expanded) = 2
    /\ Len(frames) = 1
    /\ Cardinality(Attached) = 1

====
